---- MODULE Spec2Model ----
(***************************************************************************)
(* Model of the Running Analytics Dashboard script (src/app.py).           *)
(*                                                                         *)
(* One run of the script is one pass through the stages of the `try`       *)
(* block: read + validate, coerce, filter, derive, overall metrics, weekly *)
(* goal, charts, weekly/monthly rollups, per-person statistics, outliers,  *)
(* per-person view, export.  st.stop() ends the run; an exception is       *)
(* caught by the top-level `except Exception` clause.                      *)
(*                                                                         *)
(* Numbers: distances, minutes and calories are integers (exact            *)
(* arithmetic); a quotient is an exact fraction n/d, or inf/-inf/nan as    *)
(* IEEE division by zero produces them.  A timestamp is a calendar day     *)
(* (d = day of December 2025, so day 1 is a Monday) and a time of day t    *)
(* (0 = midnight).  A cell of the uploaded file is described by what its   *)
(* text parses to: a number, a timestamp, or text that does not parse.     *)
(*                                                                         *)
(* The sidebar values (lines 62-64) are fixed for a run; the model records *)
(* each one at the stage that first reads it.                              *)
(***************************************************************************)
EXTENDS Integers, Sequences, FiniteSets, TLC

\* Largest number of rows of an enumerated uploaded table.
MaxRows == 2

-----------------------------------------------------------------------------
(* Cells *)

Num(v)   == [k |-> "num", v |-> v]
Txt      == [k |-> "txt", v |-> 0]      \* text that does not parse as a number
NaN      == [k |-> "nan", v |-> 0]      \* missing value (pandas NaN)
NoNum    == [k |-> "absent", v |-> 0]   \* the table has no such column

Ts(d, t) == [k |-> "ts", d |-> d, t |-> t]
BadDate  == [k |-> "txt", d |-> 0, t |-> 0]    \* text that is not a date
NoDate   == [k |-> "absent", d |-> 0, t |-> 0]

NoPace   == [k |-> "absent", n |-> 0, d |-> 1]
NaNPace  == [k |-> "nan", n |-> 0, d |-> 1]
InfPace  == [k |-> "inf", n |-> 0, d |-> 1]
NegInfPace == [k |-> "ninf", n |-> 0, d |-> 1]

NoPerson == ""      \* a null person value (or no person column)

\* Runners, in sorted order.
Persons == <<"Alice", "Bob">>

Abs(x) == IF x < 0 THEN -x ELSE x

RECURSIVE Gcd(_, _)
Gcd(a, b) == IF b = 0 THEN a ELSE Gcd(b, a % b)

\* a / b as pandas computes it on floats: division by zero gives inf or nan.
Quot(a, b) ==
    IF b = 0
    THEN (IF a > 0 THEN InfPace ELSE IF a < 0 THEN NegInfPace ELSE NaNPace)
    ELSE LET g == Gcd(Abs(a), Abs(b))
             s == IF b < 0 THEN -1 ELSE 1
         IN  [k |-> "num", n |-> (s * a) \div g, d |-> (s * b) \div g]

RECURSIVE SumTo(_, _)
SumTo(f, n) == IF n = 0 THEN 0 ELSE f[n] + SumTo(f, n - 1)

SumOf(s) == SumTo(s, Len(s))

SeqMax(s) == CHOOSE x \in {s[i] : i \in 1..Len(s)} :
                 \A i \in 1..Len(s) : s[i] <= x

SeqMin(s) == CHOOSE x \in {s[i] : i \in 1..Len(s)} :
                 \A i \in 1..Len(s) : s[i] >= x

-----------------------------------------------------------------------------
(* Uploaded tables *)

RequiredColumns == {"date", "person", "miles run"}

AllColumns == RequiredColumns \cup {"minutes"}

DateCells    == {Ts(1, 0), Ts(8, 0), Ts(8, 1), BadDate}
PersonCells  == {"Alice", "Bob", NoPerson}
MilesCells   == {Num(-1), Num(0), Num(3), Txt}
MinutesCells == {Txt, Num(-5), Num(30)}

Row(date, person, miles, minutes) ==
    [date |-> date, person |-> person, miles |-> miles, minutes |-> minutes,
     pace |-> NoPace, calories |-> NoNum, week |-> NoDate, month |-> NoDate]

RowsFor(cs) ==
    { Row(d, p, m, t) :
        d \in (IF "date" \in cs THEN DateCells ELSE {NoDate}),
        p \in (IF "person" \in cs THEN PersonCells ELSE {NoPerson}),
        m \in (IF "miles run" \in cs THEN MilesCells ELSE {NoNum}),
        t \in (IF "minutes" \in cs THEN MinutesCells ELSE {NoNum}) }

Table(cs, rows) == [cols |-> cs, rows |-> rows]

NoTable == Table({}, <<>>)

Run(day, person, miles) == Row(Ts(day, 0), person, Num(miles), NoNum)

\* The tables of the scenarios of the specification (section 8), and a
\* six-run table in which one run lies beyond mean + 2 std.
WeeklyScenario ==
    Table(RequiredColumns, [i \in 1..7 |-> Run(i, "Alice", i)])

OutlierScenario ==
    Table(RequiredColumns,
          [i \in 1..5 |-> Run(i, "Alice", IF i = 5 THEN 20 ELSE 3)])

SixRuns ==
    Table(RequiredColumns,
          [i \in 1..6 |-> Run(i, "Bob", IF i = 6 THEN 20 ELSE 3)])

FallbackScenario == Table(RequiredColumns, <<Run(1, "Alice", 5)>>)

ScenarioTables == {WeeklyScenario, OutlierScenario, SixRuns, FallbackScenario}

-----------------------------------------------------------------------------
(* validate_csv *)

Err(code, cols, n) == [code |-> code, cols |-> cols, n |-> n]

MissingColumnsError(cols) == Err("missing_columns", cols, 0)
EmptyError        == Err("empty", {}, 0)
DateError         == Err("date", {}, 0)
PersonError       == Err("person_empty", {}, 0)
NonNumericError(n) == Err("miles_non_numeric", {}, n)
SignError         == Err("miles_sign", {}, 0)

\* pd.to_numeric(..., errors='coerce') on one cell.
ToNumericCoerce(c) == IF c.k = "num" THEN c ELSE NaN

NullCount(t) ==
    Cardinality({ i \in 1..Len(t.rows) : ToNumericCoerce(t.rows[i].miles).k = "nan" })

MilesCheckWithoutElif(t) ==
    (IF NullCount(t) > 0 THEN <<NonNumericError(NullCount(t))>> ELSE <<>>)
    \o (IF \E i \in 1..Len(t.rows) :
              /\ t.rows[i].miles.k = "num"
              /\ t.rows[i].miles.v < 0
        THEN <<SignError>> ELSE <<>>)

MilesCheck(t) ==
    IF NullCount(t) > 0
    THEN <<NonNumericError(NullCount(t))>>
    ELSE IF \E i \in 1..Len(t.rows) : ToNumericCoerce(t.rows[i].miles).v < 0
         THEN <<SignError>>
         ELSE <<>>

validate_csv(t) ==
    LET missing == RequiredColumns \ t.cols
        e0 == IF missing # {} THEN <<MissingColumnsError(missing)>> ELSE <<>>
    IN  IF t.rows = <<>>
        THEN e0 \o <<EmptyError>>
        ELSE e0
             \o (IF /\ "date" \in t.cols
                    /\ \E i \in 1..Len(t.rows) : t.rows[i].date.k = "txt"
                 THEN <<DateError>> ELSE <<>>)
             \o (IF /\ "person" \in t.cols
                    /\ \E i \in 1..Len(t.rows) : t.rows[i].person = NoPerson
                 THEN <<PersonError>> ELSE <<>>)
             \o (IF "miles run" \in t.cols THEN MilesCheck(t) ELSE <<>>)

-----------------------------------------------------------------------------
VARIABLES
    pc,                 \* position of the script
    df,                 \* the data frame of the run
    has_time,           \* 'minutes' in df.columns
    validation_errors,  \* result of validate_csv
    cals_per_mile,      \* sidebar values, 0 until the run reads them
    est_pace,
    goal_miles,
    screen,             \* elements rendered in this run, in order
    ran,                \* stages this run has executed, in order
    derived,            \* the table as the pace/calories step left it
    metrics,            \* overall summary metrics
    goal,               \* weekly goal tracking
    person_stats,       \* per-person statistics table
    outliers,           \* rows flagged by detect_outliers
    downloads           \* data handed to the download buttons

vars == <<pc, df, has_time, validation_errors, cals_per_mile, est_pace,
          goal_miles, screen, ran, derived, metrics, goal, person_stats,
          outliers, downloads>>

NoMetrics == [total |-> 0, avg |-> NoPace, max |-> 0, min |-> 0, runs |-> 0,
              calories |-> 0]

NoGoal == [week_miles |-> 0, pct |-> NoPace, bar |-> NoPace]

NoDownloads == [filtered |-> NoTable, stats |-> <<>>]

Init ==
    /\ pc = "idle"
    /\ df = NoTable
    /\ has_time = FALSE
    /\ validation_errors = <<>>
    /\ cals_per_mile = 0
    /\ est_pace = 0
    /\ goal_miles = 0
    /\ screen = <<"info">>
    /\ ran = <<>>
    /\ derived = NoTable
    /\ metrics = NoMetrics
    /\ goal = NoGoal
    /\ person_stats = <<>>
    /\ outliers = <<>>
    /\ downloads = NoDownloads

outputsUnchanged ==
    UNCHANGED <<derived, metrics, goal, person_stats, outliers, downloads>>

configUnchanged == UNCHANGED <<cals_per_mile, est_pace, goal_miles>>


runKept == UNCHANGED <<df, has_time>>

\* The run's locals are gone once the script has ended.
runDropped == df' = NoTable /\ has_time' = FALSE

-----------------------------------------------------------------------------
(* Reading and validating: lines 66-78 *)

\* pd.read_csv(uploaded_file): the run starts with the parsed table.
Upload ==
    /\ pc = "idle"
    /\ \/ \E cs \in (SUBSET AllColumns) \ {{}} : \E n \in 0..MaxRows :
             \E r \in [1..n -> RowsFor(cs)] : df' = Table(cs, r)
       \/ \E t \in ScenarioTables : df' = t
    /\ pc' = "validate"
    /\ screen' = <<>>
    /\ ran' = <<"read">>
    /\ UNCHANGED <<has_time, validation_errors>>
    /\ configUnchanged
    /\ outputsUnchanged

\* pd.read_csv raises ParserError on a malformed file: lines 316-317.
UploadMalformed ==
    /\ pc = "idle"
    /\ pc' = "failed"
    /\ screen' = <<"parse_error">>
    /\ ran' = <<"read">>
    /\ UNCHANGED <<df, has_time, validation_errors>>
    /\ configUnchanged
    /\ outputsUnchanged

ValidateWithoutStop ==
    /\ pc = "validate"
    /\ validation_errors' = validate_csv(df)
    /\ ran' = Append(ran, "validate")
    /\ screen' = IF validation_errors' # <<>>
                 THEN Append(screen, "validation_errors") ELSE screen
    /\ pc' = "coerce"
    /\ runKept
    /\ configUnchanged
    /\ outputsUnchanged

\* validate_csv and the gate: the errors are shown and st.stop() ends the run.
Validate ==
    /\ pc = "validate"
    /\ validation_errors' = validate_csv(df)
    /\ ran' = Append(ran, "validate")
    /\ IF validation_errors' # <<>>
       THEN /\ screen' = Append(screen, "validation_errors")
            /\ pc' = "stopped"
            /\ runDropped
       ELSE /\ screen' = screen
            /\ pc' = "coerce"
            /\ runKept
    /\ configUnchanged
    /\ outputsUnchanged

-----------------------------------------------------------------------------
(* Type coercion: lines 80-85 *)

CoerceRow(r, time) ==
    [r EXCEPT !.minutes = IF time THEN ToNumericCoerce(r.minutes) ELSE r.minutes]

Coerce ==
    /\ pc = "coerce"
    /\ has_time' = ("minutes" \in df.cols)
    /\ df' = [df EXCEPT !.rows =
                [i \in 1..Len(df.rows) |-> CoerceRow(df.rows[i], has_time')]]
    /\ pc' = "filter"
    /\ ran' = Append(ran, "coerce")
    /\ UNCHANGED <<validation_errors, screen>>
    /\ configUnchanged
    /\ outputsUnchanged

-----------------------------------------------------------------------------
(* Sidebar filters and their application: lines 87-106 *)

DaysOf(rows) == { rows[i].date.d : i \in 1..Len(rows) }

min_date(rows) == CHOOSE d \in DaysOf(rows) : \A e \in DaysOf(rows) : d <= e
max_date(rows) == CHOOSE d \in DaysOf(rows) : \A e \in DaysOf(rows) : d >= e

\* sorted(df['person'].unique())
UniquePersons(rows) ==
    SelectSeq(Persons, LAMBDA p : \E i \in 1..Len(rows) : rows[i].person = p)

\* Days the user picks in the calendar widget, besides the default range
\* (min_date, max_date).
PickDays == {1, 4, 8}

\* What st.date_input returns for a range widget limited to [lo, hi]: a tuple
\* of two, one or no dates; the script also accepts a bare date.
DateRangeInputs(lo, hi) ==
    LET ds == { d \in PickDays \cup {lo, hi} : lo <= d /\ d <= hi }
    IN  { [tuple |-> TRUE, v |-> <<p[1], p[2]>>] :
              p \in { q \in ds \X ds : q[1] <= q[2] } }
        \cup { [tuple |-> TRUE, v |-> <<s>>] : s \in ds }
        \cup { [tuple |-> TRUE, v |-> <<>>] }
        \cup { [tuple |-> FALSE, v |-> <<d>>] : d \in ds }

StartDate(rows, date_range) ==
    IF date_range.tuple THEN date_range.v[1] ELSE min_date(rows)

EndDate(rows, date_range) ==
    IF date_range.tuple THEN date_range.v[2] ELSE date_range.v[1]

\* df.loc[mask]
ApplyFilters(rows, date_range, selected_persons) ==
    SelectSeq(rows, LAMBDA r :
        /\ r.date.d >= StartDate(rows, date_range)
        /\ r.date.d <= EndDate(rows, date_range)
        /\ r.person \in selected_persons)

\* except Exception: one st.error, and the run is over (lines 318-319).
Caught(stage) ==
    /\ screen' = Append(screen, "unexpected_error")
    /\ pc' = "failed"
    /\ ran' = Append(ran, stage)
    /\ runDropped

FilterProceedsWhenEmpty ==
    /\ pc = "filter"
    /\ \E date_range \in DateRangeInputs(min_date(df.rows), max_date(df.rows)) :
       \E selected_persons \in SUBSET { Persons[i] : i \in 1..Len(Persons) } :
          /\ selected_persons \subseteq
                 { UniquePersons(df.rows)[i] : i \in 1..Len(UniquePersons(df.rows)) }
          /\ IF date_range.tuple /\ Len(date_range.v) # 2
             THEN Caught("filter")
             ELSE LET kept == ApplyFilters(df.rows, date_range, selected_persons)
                  IN  /\ df' = [df EXCEPT !.rows = kept]
                      /\ has_time' = has_time
                      /\ ran' = Append(ran, "filter")
                      /\ screen' = IF kept = <<>>
                                   THEN Append(screen, "warning_no_data")
                                   ELSE screen
                      /\ pc' = "derive"
    /\ UNCHANGED validation_errors
    /\ configUnchanged
    /\ outputsUnchanged

Filter ==
    /\ pc = "filter"
    /\ \E date_range \in DateRangeInputs(min_date(df.rows), max_date(df.rows)) :
       \E selected_persons \in SUBSET { Persons[i] : i \in 1..Len(Persons) } :
          /\ selected_persons \subseteq
                 { UniquePersons(df.rows)[i] : i \in 1..Len(UniquePersons(df.rows)) }
          /\ IF date_range.tuple /\ Len(date_range.v) # 2
             THEN Caught("filter")      \* unpacking raises ValueError
             ELSE LET kept == ApplyFilters(df.rows, date_range, selected_persons)
                  IN  IF kept = <<>>
                      THEN /\ screen' = Append(screen, "warning_no_data")
                           /\ pc' = "stopped"
                           /\ ran' = Append(ran, "filter")
                           /\ runDropped
                      ELSE /\ df' = [df EXCEPT !.rows = kept]
                           /\ has_time' = has_time
                           /\ screen' = screen
                           /\ pc' = "derive"
                           /\ ran' = Append(ran, "filter")
    /\ UNCHANGED validation_errors
    /\ configUnchanged
    /\ outputsUnchanged

-----------------------------------------------------------------------------
(* Pace and calories, success message, preview: lines 108-121 *)

\* Sidebar values the enumerated runs use: the slider has 50..200, the
\* fallback pace 5..20, the weekly goal any value >= 0.
CalsChoices == {50, 100}
PaceChoices == {5, 10}
GoalChoices == {0, 3, 20}

\* df['minutes'] / df['miles run'] on one row; a missing duration gives nan.
RowPace(r) ==
    IF r.minutes.k = "num" THEN Quot(r.minutes.v, r.miles.v) ELSE NaNPace

DeriveRowPerRecordFallback(r, time, pace, cals) ==
    IF time /\ r.minutes.k = "num"
    THEN [r EXCEPT !.pace = RowPace(r),
                   !.calories = Num(r.miles.v * cals)]
    ELSE [r EXCEPT !.pace = Quot(pace, 1),
                   !.minutes = Num(r.miles.v * pace),
                   !.calories = Num(r.miles.v * cals)]

DeriveRow(r, time, pace, cals) ==
    IF time
    THEN [r EXCEPT !.pace = RowPace(r),
                   !.calories = Num(r.miles.v * cals)]
    ELSE [r EXCEPT !.pace = Quot(pace, 1),
                   !.minutes = Num(r.miles.v * pace),
                   !.calories = Num(r.miles.v * cals)]

DerivedColumns == {"minutes", "pace_min_per_mile", "calories"}

Derive ==
    /\ pc = "derive"
    /\ \E cals \in CalsChoices : \E pace \in PaceChoices :
          /\ cals_per_mile' = cals
          /\ est_pace' = IF has_time THEN est_pace ELSE pace
          /\ df' = [cols |-> df.cols \cup DerivedColumns,
                    rows |-> [i \in 1..Len(df.rows) |->
                                 DeriveRow(df.rows[i], has_time, pace, cals)]]
    /\ derived' = df'
    /\ screen' = screen \o <<"success", "preview">>
    /\ pc' = "overall"
    /\ ran' = Append(ran, "derive")
    /\ UNCHANGED <<has_time, validation_errors, goal_miles>>
    /\ UNCHANGED <<metrics, goal, person_stats, outliers, downloads>>

-----------------------------------------------------------------------------
(* Overall summary metrics: lines 123-149 *)

MilesOf(rows) == [i \in 1..Len(rows) |-> rows[i].miles.v]

CaloriesOf(rows) == [i \in 1..Len(rows) |-> rows[i].calories.v]

Overall ==
    /\ pc = "overall"
    /\ metrics' = [total    |-> SumOf(MilesOf(df.rows)),
                   avg      |-> Quot(SumOf(MilesOf(df.rows)), Len(df.rows)),
                   max      |-> SeqMax(MilesOf(df.rows)),
                   min      |-> SeqMin(MilesOf(df.rows)),
                   runs     |-> Len(df.rows),
                   calories |-> SumOf(CaloriesOf(df.rows))]
    /\ screen' = Append(screen, "overall_metrics")
    /\ pc' = "goal"
    /\ ran' = Append(ran, "overall")
    /\ runKept
    /\ UNCHANGED validation_errors
    /\ configUnchanged
    /\ UNCHANGED <<derived, goal, person_stats, outliers, downloads>>

-----------------------------------------------------------------------------
(* Weekly goal tracking: lines 151-162 *)

TsLE(a, b) == a.d < b.d \/ (a.d = b.d /\ a.t <= b.t)

MaxTs(rows) ==
    CHOOSE x \in { rows[i].date : i \in 1..Len(rows) } :
        \A i \in 1..Len(rows) : TsLE(rows[i].date, x)

\* Timestamp.normalize(): midnight of the same day.
Normalize(ts) == Ts(ts.d, 0)

\* timedelta(days=6)
WindowDays == 6

week_end(rows) == Normalize(MaxTs(rows))

week_start(rows) == Ts(week_end(rows).d - WindowDays, week_end(rows).t)

\* df.loc[week_mask]
WeekRows(rows) ==
    SelectSeq(rows, LAMBDA r :
        TsLE(week_start(rows), r.date) /\ TsLE(r.date, week_end(rows)))

week_miles(rows) == SumOf(MilesOf(WeekRows(rows)))

goal_pct(rows, g) ==
    IF g > 0 THEN Quot(week_miles(rows) * 100, g) ELSE Quot(0, 1)

\* min(goal_pct / 100, 1.0)
ProgressBar(pct) ==
    IF pct.n >= 100 * pct.d THEN Quot(1, 1) ELSE Quot(pct.n, 100 * pct.d)

Goal ==
    /\ pc = "goal"
    /\ \E g \in GoalChoices :
          /\ goal_miles' = g
          /\ goal' = [week_miles |-> week_miles(df.rows),
                      pct        |-> goal_pct(df.rows, g),
                      bar        |-> ProgressBar(goal_pct(df.rows, g))]
    /\ screen' = Append(screen, "goal_tracking")
    /\ pc' = "charts"
    /\ ran' = Append(ran, "goal")
    /\ runKept
    /\ UNCHANGED <<validation_errors, cals_per_mile, est_pace>>
    /\ UNCHANGED <<derived, metrics, person_stats, outliers, downloads>>

-----------------------------------------------------------------------------
(* Overall visualizations: lines 164-206 *)

Charts ==
    /\ pc = "charts"
    /\ screen' = Append(screen, "charts")
    /\ pc' = "rollups"
    /\ ran' = Append(ran, "charts")
    /\ runKept
    /\ UNCHANGED validation_errors
    /\ configUnchanged
    /\ outputsUnchanged

-----------------------------------------------------------------------------
(* Weekly and monthly summaries: lines 208-222 *)

\* to_period('W').start_time: the Monday of the week; day 1 is a Monday.
WeekStart(ts) == Ts(ts.d - ((ts.d - 1) % 7), 0)

\* to_period('M').to_timestamp(): the first day of the month.
MonthStart(ts) == Ts(1, 0)

RollupColumns == {"week", "month"}

Rollups ==
    /\ pc = "rollups"
    /\ df' = [cols |-> df.cols \cup RollupColumns,
              rows |-> [i \in 1..Len(df.rows) |->
                          [df.rows[i] EXCEPT !.week = WeekStart(df.rows[i].date),
                                             !.month = MonthStart(df.rows[i].date)]]]
    /\ screen' = Append(screen, "rollup_charts")
    /\ pc' = "person_stats"
    /\ ran' = Append(ran, "rollups")
    /\ UNCHANGED <<has_time, validation_errors>>
    /\ configUnchanged
    /\ outputsUnchanged

-----------------------------------------------------------------------------
(* Per-person statistics: lines 224-235 *)

RowsOfPerson(rows, p) == SelectSeq(rows, LAMBDA r : r.person = p)

\* round(2) of total / count, in hundredths (round half to even).
Round2(total, count) ==
    LET q == (100 * total) \div count
        r == (100 * total) % count
    IN  IF 2 * r > count \/ (2 * r = count /\ q % 2 = 1) THEN q + 1 ELSE q

\* ('Calories (est)', 'sum') of the 'miles run' column of the group.
CaloriesEstAgg(group) == SumOf(MilesOf(group))

StatsOf(p, group) ==
    [person   |-> p,
     total    |-> SumOf(MilesOf(group)),
     avg100   |-> Round2(SumOf(MilesOf(group)), Len(group)),
     max      |-> SeqMax(MilesOf(group)),
     min      |-> SeqMin(MilesOf(group)),
     count    |-> Len(group),
     calories |-> CaloriesEstAgg(group)]

\* df.groupby('person')[...].agg(...): one row per person, in key order.
GroupStats(rows) ==
    [i \in 1..Len(UniquePersons(rows)) |->
        StatsOf(UniquePersons(rows)[i], RowsOfPerson(rows, UniquePersons(rows)[i]))]

\* Insert x after the entries whose total is at least x.total.
RECURSIVE InsertDesc(_, _)
InsertDesc(s, x) ==
    IF s = <<>> THEN <<x>>
    ELSE IF Head(s).total >= x.total
         THEN <<Head(s)>> \o InsertDesc(Tail(s), x)
         ELSE <<x>> \o s

RECURSIVE SortFrom(_, _)
SortFrom(s, acc) ==
    IF s = <<>> THEN acc ELSE SortFrom(Tail(s), InsertDesc(acc, Head(s)))

\* sort_values('Total Miles', ascending=False)
SortByTotal(s) == SortFrom(s, <<>>)

PersonStats ==
    /\ pc = "person_stats"
    /\ person_stats' = SortByTotal(GroupStats(df.rows))
    /\ screen' = Append(screen, "person_stats")
    /\ pc' = "outliers"
    /\ ran' = Append(ran, "person_stats")
    /\ runKept
    /\ UNCHANGED validation_errors
    /\ configUnchanged
    /\ UNCHANGED <<derived, metrics, goal, outliers, downloads>>

-----------------------------------------------------------------------------
(* Outlier detection: lines 237-249 *)

SquaresOf(rows) == [i \in 1..Len(rows) |-> rows[i].miles.v * rows[i].miles.v]

\* n^2 times the population variance (ddof=0) of the group's distances.
ScaledVariance(group) ==
    Len(group) * SumOf(SquaresOf(group))
        - SumOf(MilesOf(group)) * SumOf(MilesOf(group))

AtOrAboveUpper(x, group) ==
    LET e == Len(group) * x - SumOf(MilesOf(group))
    IN  e > 0 /\ e * e >= 4 * ScaledVariance(group)

\* x > mean + 2*std, with mean = S/n and std = sqrt(V)/n, in exact
\* arithmetic: n*x - S > 2*sqrt(V).
AboveUpper(x, group) ==
    LET e == Len(group) * x - SumOf(MilesOf(group))
    IN  e > 0 /\ e * e > 4 * ScaledVariance(group)

\* x < max(mean - 2*std, 0)
BelowLower(x, group) ==
    LET S == SumOf(MilesOf(group))
        e == S - Len(group) * x
    IN  IF S * S > 4 * ScaledVariance(group)          \* mean - 2*std > 0
        THEN e > 0 /\ e * e > 4 * ScaledVariance(group)
        ELSE x < 0

detect_outliers(group) ==
    SelectSeq(group, LAMBDA r :
        AboveUpper(r.miles.v, group) \/ BelowLower(r.miles.v, group))

\* groupby('person', group_keys=False).apply(detect_outliers)
RECURSIVE ConcatGroups(_, _)
ConcatGroups(rows, ps) ==
    IF ps = <<>> THEN <<>>
    ELSE detect_outliers(RowsOfPerson(rows, Head(ps)))
             \o ConcatGroups(rows, Tail(ps))

Outliers ==
    /\ pc = "outliers"
    /\ outliers' = ConcatGroups(df.rows, UniquePersons(df.rows))
    /\ screen' = Append(screen,
                        IF outliers' = <<>> THEN "no_outliers" ELSE "outliers")
    /\ pc' = "person_view"
    /\ ran' = Append(ran, "outliers")
    /\ runKept
    /\ UNCHANGED validation_errors
    /\ configUnchanged
    /\ UNCHANGED <<derived, metrics, goal, person_stats, downloads>>

-----------------------------------------------------------------------------
(* Per-person detailed views: lines 251-309 *)

PersonView ==
    /\ pc = "person_view"
    /\ \E k \in 1..Len(UniquePersons(df.rows)) :
          LET selected_person == UniquePersons(df.rows)[k]
              person_data == RowsOfPerson(df.rows, selected_person)
          IN  screen' = IF Len(person_data) > 0
                        THEN Append(screen, "person_view") ELSE screen
    /\ pc' = "export"
    /\ ran' = Append(ran, "person_view")
    /\ runKept
    /\ UNCHANGED validation_errors
    /\ configUnchanged
    /\ outputsUnchanged

-----------------------------------------------------------------------------
(* Export buttons: lines 311-314 *)

\* df.to_csv(index=False): every column of df as it is now.
ExportedFrame == df

Export ==
    /\ pc = "export"
    /\ downloads' = [filtered |-> ExportedFrame, stats |-> person_stats]
    /\ screen' = Append(screen, "downloads")
    /\ pc' = "done"
    /\ ran' = Append(ran, "export")
    /\ runDropped
    /\ UNCHANGED validation_errors
    /\ configUnchanged
    /\ UNCHANGED <<derived, metrics, goal, person_stats, outliers>>

-----------------------------------------------------------------------------
(* The top-level except clause and the next run *)

\* Stages inside the try block after the validation gate.
TryStages == {"coerce", "filter", "derive", "overall", "goal", "charts",
              "rollups", "person_stats", "outliers", "person_view", "export"}

\* A library call of the current stage raises (pandas, plotly or streamlit
\* failing on the data or in the environment); the clause at line 318
\* catches it.
\* The values the run had computed are lost with it; what was rendered stays
\* on the screen.
Unexpected ==
    /\ pc \in TryStages
    /\ Caught(pc)
    /\ derived' = NoTable
    /\ metrics' = NoMetrics
    /\ goal' = NoGoal
    /\ person_stats' = <<>>
    /\ outliers' = <<>>
    /\ downloads' = NoDownloads
    /\ UNCHANGED validation_errors
    /\ configUnchanged

\* Streamlit runs the script again from the top on the next interaction;
\* nothing of the previous run is kept.
Rerun ==
    /\ pc \in {"stopped", "failed", "done"}
    /\ pc' = "idle"
    /\ df' = NoTable
    /\ has_time' = FALSE
    /\ validation_errors' = <<>>
    /\ cals_per_mile' = 0
    /\ est_pace' = 0
    /\ goal_miles' = 0
    /\ screen' = <<"info">>
    /\ ran' = <<>>
    /\ derived' = NoTable
    /\ metrics' = NoMetrics
    /\ goal' = NoGoal
    /\ person_stats' = <<>>
    /\ outliers' = <<>>
    /\ downloads' = NoDownloads

Next ==
    \/ Upload
    \/ UploadMalformed
    \/ Validate
    \/ Coerce
    \/ Filter
    \/ Derive
    \/ Overall
    \/ Goal
    \/ Charts
    \/ Rollups
    \/ PersonStats
    \/ Outliers
    \/ PersonView
    \/ Export
    \/ Unexpected
    \/ Rerun

Spec == Init /\ [][Next]_vars

-----------------------------------------------------------------------------
(* Properties *)

Has(s, x) == \E i \in 1..Len(s) : s[i] = x

\* Stages that follow the validation gate.
LaterStages == TryStages

AfterDerive == {"overall", "goal", "charts", "rollups", "person_stats",
                "outliers", "person_view", "export"}

NoOutputs ==
    /\ derived = NoTable
    /\ metrics = NoMetrics
    /\ goal = NoGoal
    /\ person_stats = <<>>
    /\ outliers = <<>>
    /\ downloads = NoDownloads

\* C1: when validate_csv returns a non-empty list, the run ends with the
\* validation errors on the screen and no later stage (coercion, filtering,
\* derivation, aggregation, rendering, export) has run or ever runs in it.
ValidationErrorsHaltRun ==
    validation_errors # <<>> =>
        /\ pc = "stopped"
        /\ ran = <<"read", "validate">>
        /\ \A i \in 1..Len(ran) : ran[i] \notin LaterStages
        /\ screen = <<"validation_errors">>
        /\ NoOutputs

ValidationErrorsShown ==
    /\ pc = "stopped"
    /\ Len(validation_errors) >= 2
    /\ screen = <<"validation_errors">>

\* C2: every row of the per-person statistics carries, as total calories,
\* the sum of the calories of that person's derived records, and the rows
\* are in descending order of total distance.
PersonStatsCaloriesAreSummed ==
    /\ \A i \in 1..Len(person_stats) :
          person_stats[i].calories =
              SumOf(CaloriesOf(RowsOfPerson(derived.rows, person_stats[i].person)))
    /\ \A i \in 1..Len(person_stats) : \A j \in 1..Len(person_stats) :
          i < j => person_stats[i].total >= person_stats[j].total

AliceDistances == MilesOf(RowsOfPerson(derived.rows, "Alice"))

OutliersComputed == pc \in {"person_view", "export", "done"}

\* C3 as stated: with Alice's filtered distances [3,3,3,3,20], the run of 20
\* is flagged as an outlier.
OutlierScenarioFlagsTwenty ==
    (OutliersComputed /\ AliceDistances = <<3, 3, 3, 3, 20>>) =>
        \E i \in 1..Len(outliers) :
            outliers[i].person = "Alice" /\ outliers[i].miles.v = 20

\* C3 amended: with Alice's filtered distances [3,3,3,3,20] the upper bound
\* mean + 2*std is exactly 20 and the comparison is strict, so no run of
\* Alice is flagged.
OutlierScenarioFlagsNothing ==
    (OutliersComputed /\ AliceDistances = <<3, 3, 3, 3, 20>>) =>
        \A i \in 1..Len(outliers) : outliers[i].person # "Alice"

OutlierScenarioReached ==
    /\ pc = "done"
    /\ AliceDistances = <<3, 3, 3, 3, 20>>
    /\ outliers = <<>>
    /\ Has(screen, "no_outliers")

\* C4: every record that reaches the filter and the derived-field
\* calculation has distance >= 0 and, when its duration is present,
\* duration >= 0.
RecordInvariant ==
    pc \in {"filter", "derive"} =>
        \A i \in 1..Len(df.rows) :
            /\ df.rows[i].miles.v >= 0
            /\ (df.rows[i].minutes.k = "num" => df.rows[i].minutes.v >= 0)

FallbackPaces == { Quot(p, 1) : p \in PaceChoices }

\* The record's duration was present when the calculator read it: the
\* table has a minutes column and the row's value is a number.
DurationPresent(r) == has_time /\ r.minutes.k = "num"

\* C5 as stated: per record, pace = duration / distance when the duration is
\* present; when it is absent (no minutes column, or this row's value is
\* missing) pace is the fallback pace and the duration is back-filled as
\* distance * fallback pace.
PacePerRecord ==
    [][ (pc = "derive" /\ pc' = "overall") =>
           /\ Len(df'.rows) = Len(df.rows)
           /\ \A i \in 1..Len(df.rows) :
                 LET r == df.rows[i]
                     q == df'.rows[i]
                 IN  IF DurationPresent(r)
                     THEN q.pace = Quot(r.minutes.v, r.miles.v)
                     ELSE /\ q.pace \in FallbackPaces
                          /\ q.minutes.k = "num"
                          /\ q.minutes.v * q.pace.d = r.miles.v * q.pace.n
                          /\ (~has_time => q.pace = Quot(est_pace', 1))
      ]_vars

\* C5 amended: the choice is per table.  With a minutes column, a record
\* whose duration is present and whose distance is positive has
\* pace * distance = duration, and a record whose duration is missing keeps
\* a missing duration and gets a missing pace; without a minutes column
\* every record gets the fallback pace and duration = distance * fallback.
PacePerTable ==
    [][ (pc = "derive" /\ pc' = "overall") =>
           /\ Len(df'.rows) = Len(df.rows)
           /\ \A i \in 1..Len(df.rows) :
                 LET r == df.rows[i]
                     q == df'.rows[i]
                 IN  IF has_time
                     THEN /\ (r.minutes.k = "num" /\ r.miles.v > 0) =>
                                /\ q.pace.k = "num"
                                /\ q.pace.n * r.miles.v = r.minutes.v * q.pace.d
                          /\ r.minutes.k = "nan" => q.pace.k = "nan"
                          /\ q.minutes = r.minutes
                     ELSE /\ q.pace.k = "num"
                          /\ q.pace.n = est_pace' * q.pace.d
                          /\ q.minutes = Num(r.miles.v * est_pace')
      ]_vars

MissingDurationDerived ==
    /\ pc = "overall"
    /\ has_time
    /\ \E i \in 1..Len(derived.rows) :
          derived.rows[i].minutes.k = "nan" /\ derived.rows[i].pace.k = "nan"
    /\ \E i \in 1..Len(derived.rows) :
          derived.rows[i].minutes.k = "num" /\ derived.rows[i].pace.k = "num"

\* C6: a run in which an unexpected error was raised shows exactly one
\* generic failure notice and no pipeline output.
UnexpectedErrorRendersNothingElse ==
    Has(screen, "unexpected_error") => screen = <<"unexpected_error">>

\* The claim's window: the records whose calendar day lies in
\* [maxDate - 6 days, maxDate], maxDate the latest day of the table.
WindowMiles(rows) ==
    SumOf(MilesOf(SelectSeq(rows, LAMBDA r :
        /\ r.date.d >= max_date(rows) - WindowDays
        /\ r.date.d <= max_date(rows))))

\* C7: the weekly sum is the sum of distance over the records of the
\* inclusive 7-day window ending at the latest date; progress is
\* weekly_sum / goal * 100 for goal > 0 and 0 for goal = 0; the bar shows
\* min(progress / 100, 1); the seven runs 1..7 of one week give 28 and, with
\* goal 20, 140%.
WeeklyGoalOverCalendarWindow ==
    goal # NoGoal =>
        /\ goal.week_miles = WindowMiles(derived.rows)
        /\ IF goal_miles > 0
           THEN goal.pct.n * goal_miles = goal.week_miles * 100 * goal.pct.d
           ELSE goal.pct = Quot(0, 1)
        /\ IF goal.pct.n >= 100 * goal.pct.d
           THEN goal.bar = Quot(1, 1)
           ELSE goal.bar.n * 100 * goal.pct.d = goal.pct.n * goal.bar.d
        /\ (MilesOf(derived.rows) = <<1, 2, 3, 4, 5, 6, 7>> /\ goal_miles = 20) =>
              goal.week_miles = 28 /\ goal.pct = Quot(140, 1)

AllNumeric(t) == \A i \in 1..Len(t.rows) : t.rows[i].miles.k = "num"

NegativeAndAllNumeric(t) ==
    /\ t.rows # <<>>
    /\ "miles run" \in t.cols
    /\ AllNumeric(t)
    /\ \E i \in 1..Len(t.rows) : t.rows[i].miles.v < 0

HasNonNumericError(errs) ==
    \E i \in 1..Len(errs) : errs[i].code = "miles_non_numeric"

\* C8: validating a non-empty table whose 'miles run' column has a negative
\* value and no non-numeric value reports the sign error and no
\* non-numeric-count error; the two are never reported together, and the
\* sign error is reported only when every value parsed as a number.
SignAndCountErrorsExclusive ==
    [][ /\ (pc = "validate" /\ NegativeAndAllNumeric(df)) =>
               /\ Has(validation_errors', SignError)
               /\ ~HasNonNumericError(validation_errors')
        /\ ~(Has(validation_errors', SignError)
               /\ HasNonNumericError(validation_errors'))
        /\ (pc = "validate" /\ Has(validation_errors', SignError)) =>
               AllNumeric(df)
      ]_vars

SignErrorReported ==
    /\ pc = "stopped"
    /\ Has(validation_errors, SignError)
    /\ Len(validation_errors) >= 2

AfterFilter == {"derive"} \cup AfterDerive

\* C9: a run whose filters leave no row reports "no data after filtering",
\* shows no failure notice and executes nothing after the filter: every run
\* that goes on past the filter has at least one row, and a run that shows
\* the warning has stopped right after the filter with nothing else rendered
\* or computed.
EmptyAfterFilterStops ==
    /\ pc \in AfterFilter => df.rows # <<>>
    /\ Has(screen, "warning_no_data") =>
          /\ pc = "stopped"
          /\ screen = <<"warning_no_data">>
          /\ ran = <<"read", "validate", "coerce", "filter">>
          /\ NoOutputs

NoDataReported ==
    /\ pc = "stopped"
    /\ screen = <<"warning_no_data">>
    /\ validation_errors = <<>>

\* C10: the table offered for download at the end of the run has exactly the
\* rows and the fields of the table the derived-field calculator produced.
DerivedTableIsExported ==
    pc = "done" => downloads.filtered = derived
====
